---- MODULE Spec2Model ----
(***************************************************************************)
(* Model of pkg/logger/klogr/klogr.go: a logr.Logger implemented on klog.  *)
(*                                                                         *)
(* Text is a sequence of one-character strings, so that formatting,        *)
(* quoting and joining are computed character by character.  A Go          *)
(* interface{} value is a record [kind, s, n]: kind is the dynamic type,   *)
(* s the text of a string / error / Stringer, n the number of an int.      *)
(***************************************************************************)
EXTENDS Integers, Sequences, FiniteSets, TLC

VARIABLES
    heap,        \* backing arrays of all []interface{} slices ever allocated
    loggers,     \* the klogger values constructed so far
    derivation,  \* per logger: the WithName arguments and last V argument of its chain
    threshold,   \* klog's verbosity, read by klog.V(level).Enabled()
    sink,        \* klog's output: number of lines written, severity and text of the last
    last,        \* the most recent call on a logger and what it produced
    fn,          \* pure-function harness: which function is applied
    arg,         \* pure-function harness: its argument
    ret          \* pure-function harness: <<>> before the call, <<result>> after

vars == <<heap, loggers, derivation, threshold, sink, last, fn, arg, ret>>

----------------------------------------------------------------------------
(* Bounds of the model *)

MaxLoggers == 3
MaxWrites == 2
MaxLayers == 2
MaxLayerLen == 4
MaxFmtLen == 3

----------------------------------------------------------------------------
(* Values of type interface{} *)

StrValue(s) == [kind |-> "string", s |-> s, n |-> 0]
IntValue(n) == [kind |-> "int", s |-> <<>>, n |-> n]
ErrorValue(s) == [kind |-> "error", s |-> s, n |-> 0]
Stringer(s) == [kind |-> "stringer", s |-> s, n |-> 0]
Nil == [kind |-> "nil", s |-> <<>>, n |-> 0]

ErrKey == StrValue(<<"e", "r", "r">>)

missingValue == <<"(", "M", "I", "S", "S", "I", "N", "G", ")">>

----------------------------------------------------------------------------
(* fmt verbs, as far as kvListFormat uses them *)

Digit(d) == <<"0", "1", "2", "3", "4", "5", "6", "7", "8", "9">>[d + 1]

RECURSIVE Itoa(_)
Itoa(n) == IF n < 10 THEN <<Digit(n)>> ELSE Itoa(n \div 10) \o <<Digit(n % 10)>>

RECURSIVE Escape(_)
Escape(s) ==
    IF s = <<>> THEN <<>>
    ELSE (IF Head(s) \in {"\"", "\\"} THEN <<"\\", Head(s)>> ELSE <<Head(s)>>)
         \o Escape(Tail(s))

Quote(s) == <<"\"">> \o Escape(s) \o <<"\"">>

\* %s
FmtS(x) ==
    CASE x.kind \in {"string", "error", "stringer"} -> x.s
      [] x.kind = "int" -> <<"%", "!", "s", "(", "i", "n", "t", "=">> \o Itoa(x.n) \o <<")">>
      [] OTHER -> <<"%", "!", "s", "(", "<", "n", "i", "l", ">", ")">>

\* %q, applied to a string, an error or a Stringer
FmtQ(x) == Quote(x.s)

\* %+v, applied to anything else
FmtPlusV(x) ==
    CASE x.kind = "int" -> Itoa(x.n)
      [] x.kind = "nil" -> <<"<", "n", "i", "l", ">">>
      [] OTHER -> x.s

----------------------------------------------------------------------------
(* kvListFormat *)

\* the switch on v's dynamic type and the Sprintf of its arm
FormatPair(k, v) ==
    IF v.kind \in {"string", "error"} THEN FmtS(k) \o <<"=">> \o FmtQ(v)
    ELSE IF v.kind = "stringer" THEN FmtS(k) \o <<"=">> \o FmtQ(v)
    ELSE FmtS(k) \o <<"=">> \o FmtPlusV(v)

ValueAtNil(kv, i) == IF i + 1 <= Len(kv) THEN kv[i + 1] ELSE Nil

\* the value paired with the key at (1-based) index i
ValueAt(kv, i) == IF i + 1 <= Len(kv) THEN kv[i + 1] ELSE StrValue(missingValue)

RECURSIVE kvListFormatFrom(_, _)
kvListFormatFrom(kv, i) ==
    IF i > Len(kv) THEN <<>>
    ELSE (IF i > 1 THEN <<" ">> ELSE <<>>)
         \o FormatPair(kv[i], ValueAt(kv, i))
         \o kvListFormatFrom(kv, i + 2)

kvListFormat(keysAndValues) == kvListFormatFrom(keysAndValues, 1)

----------------------------------------------------------------------------
(* trimDuplicates *)

TrimValueMissing(kvList, i2) ==
    IF i2 + 1 <= Len(kvList) THEN kvList[i2 + 1] ELSE StrValue(missingValue)

\* the value of the key at (1-based) index i2: nil when i2+1 is out of bounds
TrimValue(kvList, i2) == IF i2 + 1 <= Len(kvList) THEN kvList[i2 + 1] ELSE Nil

SeenAfterForgetful(seenKeys, k) == seenKeys

\* seenKeys[k] = struct{}{}
SeenAfter(seenKeys, k) == seenKeys \cup {k}

\* the inner loop: i2 runs down from the start index in steps of two
RECURSIVE trimList(_, _, _, _)
trimList(kvList, i2, seenKeys, out) ==
    IF i2 < 1 THEN [out |-> out, seenKeys |-> seenKeys]
    ELSE LET k == kvList[i2] IN
         IF k \in seenKeys THEN trimList(kvList, i2 - 2, seenKeys, out)
         ELSE trimList(kvList, i2 - 2, SeenAfter(seenKeys, k),
                       <<k, TrimValue(kvList, i2)>> \o out)

TrimStartEven(kvList) == Len(kvList) - 2 + 1

\* len(kvList) - 2 + (len(kvList) % 2), as a 1-based index
TrimStart(kvList) == Len(kvList) - 2 + (Len(kvList) % 2) + 1

\* the outer loop: i runs down from the last layer
RECURSIVE trimLayers(_, _, _, _)
trimLayers(kvLists, i, seenKeys, outs) ==
    IF i < 1 THEN outs
    ELSE LET r == trimList(kvLists[i], TrimStart(kvLists[i]), seenKeys, <<>>) IN
         trimLayers(kvLists, i - 1, r.seenKeys, [outs EXCEPT ![i] = r.out])

trimDuplicates(kvLists) ==
    trimLayers(kvLists, Len(kvLists), {}, [i \in 1..Len(kvLists) |-> <<>>])

----------------------------------------------------------------------------
(* concatenate, and the fmt.Fprint klog applies to its result *)

RECURSIVE Flatten(_)
Flatten(args) == IF args = <<>> THEN <<>> ELSE Head(args) \o Flatten(Tail(args))

PieceArgsAlwaysSpace(args, piece) ==
    IF piece = <<>> THEN args ELSE args \o <<<<" ">>, piece>>

\* one iteration of the loop over pieces
PieceArgs(args, piece) ==
    IF piece = <<>> THEN args
    ELSE (IF args # <<>> THEN args \o <<<<" ">>>> ELSE args) \o <<piece>>

RECURSIVE concatPieces(_, _)
concatPieces(args, pieces) ==
    IF pieces = <<>> THEN args
    ELSE concatPieces(PieceArgs(args, Head(pieces)), Tail(pieces))

concatenate(prefix, pieces) ==
    concatPieces(IF prefix # <<>> THEN <<prefix \o <<":">>>> ELSE <<>>, pieces)

----------------------------------------------------------------------------
(* Slices: a slice is [arr, len]; arr indexes heap (0: no backing array),    *)
(* and its capacity is the length of the backing array.                      *)

NilSlice == [arr |-> 0, len |-> 0]

Cap(h, s) == IF s.arr = 0 THEN 0 ELSE Len(h[s.arr])

Elems(h, s) == IF s.len = 0 THEN <<>> ELSE SubSeq(h[s.arr], 1, s.len)

copySliceShared(h, in) == [heap |-> h, slice |-> in]

\* make([]interface{}, len(in)) and copy(out, in)
copySlice(h, in) ==
    IF in.len = 0 THEN [heap |-> h, slice |-> NilSlice]
    ELSE [heap |-> Append(h, Elems(h, in)),
          slice |-> [arr |-> Len(h) + 1, len |-> in.len]]

\* the capacities the runtime may give the array append allocates for `need`
\* elements when the old capacity is `cap`
GrowCaps(cap, need) == {need} \cup {c \in {2 * cap} : c >= need}

\* append(s, kvList...): in place when the capacity suffices, else into a new
\* array of capacity newcap
appendSlice(h, s, kvList, newcap) ==
    LET need == s.len + Len(kvList) IN
    IF kvList = <<>> THEN [heap |-> h, slice |-> s]
    ELSE IF need <= Cap(h, s)
    THEN [heap |-> [h EXCEPT ![s.arr] =
                       [j \in 1..Len(h[s.arr]) |->
                           IF j > s.len /\ j <= need THEN kvList[j - s.len]
                           ELSE h[s.arr][j]]],
          slice |-> [arr |-> s.arr, len |-> need]]
    ELSE [heap |-> Append(h, [j \in 1..newcap |->
                                 IF j <= s.len THEN h[s.arr][j]
                                 ELSE IF j <= need THEN kvList[j - s.len]
                                 ELSE Nil]),
          slice |-> [arr |-> Len(h) + 1, len |-> need]]

----------------------------------------------------------------------------
(* klogger and its methods.  A method that allocates returns the new heap    *)
(* with its result.                                                          *)

New == [level |-> 0, prefix |-> <<>>, values |-> NilSlice]

cloneZeroLevel(h, l) ==
    LET c == copySlice(h, l.values) IN
    [heap |-> c.heap, logger |-> [level |-> 0, prefix |-> l.prefix, values |-> c.slice]]

clone(h, l) ==
    LET c == copySlice(h, l.values) IN
    [heap |-> c.heap,
     logger |-> [level |-> l.level, prefix |-> l.prefix, values |-> c.slice]]

V(h, l, level) ==
    LET new == clone(h, l) IN
    [heap |-> new.heap, logger |-> [new.logger EXCEPT !.level = level]]

NamePrefixNoSeparator(prefix, name) == prefix \o name

\* new.prefix = l.prefix + "/" when l.prefix is not empty; new.prefix += name
NamePrefix(prefix, name) ==
    (IF Len(prefix) > 0 THEN prefix \o <<"/">> ELSE prefix) \o name

WithName(h, l, name) ==
    LET new == clone(h, l) IN
    [heap |-> new.heap,
     logger |-> [new.logger EXCEPT !.prefix = NamePrefix(l.prefix, name)]]

WithValues(h, l, kvList, newcap) ==
    LET new == clone(h, l)
        a == appendSlice(new.heap, new.logger.values, kvList, newcap) IN
    [heap |-> a.heap, logger |-> [new.logger EXCEPT !.values = a.slice]]

\* klog.V(klog.Level(l.level)).Enabled()
Enabled(l) == threshold >= l.level

\* the text of the line: klog prints concatenate's result with fmt.Fprint,
\* which puts nothing between string operands
Line(l, pieces) == Flatten(concatenate(l.prefix, pieces))

\* what Info hands to klog.InfoDepth: nothing when the logger is not enabled
InfoWrites(l, msg, kvList) ==
    IF Enabled(l)
    THEN LET trimmed == trimDuplicates(<<Elems(heap, l.values), kvList>>)
             fixedStr == kvListFormat(trimmed[1])
             userStr == kvListFormat(trimmed[2]) IN
         <<[sev |-> "info", text |-> Line(l, <<msg, fixedStr, userStr>>)]>>
    ELSE <<>>

ErrorWritesGated(l, err, msg, kvList) ==
    IF Enabled(l)
    THEN LET trimmed == trimDuplicates(<<Elems(heap, l.values), kvList>>) IN
         <<[sev |-> "error",
            text |-> Line(l, <<msg, kvListFormat(<<ErrKey, err>>),
                               kvListFormat(trimmed[1]), kvListFormat(trimmed[2])>>)]>>
    ELSE <<>>

\* what Error hands to klog.ErrorDepth
ErrorWrites(l, err, msg, kvList) ==
    LET errStr == kvListFormat(<<ErrKey, err>>)
        trimmed == trimDuplicates(<<Elems(heap, l.values), kvList>>)
        fixedStr == kvListFormat(trimmed[1])
        userStr == kvListFormat(trimmed[2]) IN
    <<[sev |-> "error", text |-> Line(l, <<msg, errStr, fixedStr, userStr>>)]>>

----------------------------------------------------------------------------
(* Arguments of the calls *)

A == StrValue(<<"a">>)
B == StrValue(<<"b">>)

Names == {<<"s", "v", "c">>, <<"d", "b">>}
Msgs == {<<>>, <<"s", "t", "a", "r", "t", "e", "d">>}
Levels == {0, 1}
Thresholds == {0, 1}
WithValuesArgs == {<<A, IntValue(1)>>, <<B>>}
CallArgs == {<<>>, <<B, IntValue(2)>>, <<A>>}
Errs == {ErrorValue(<<"e">>)}

NoCall == [op |-> "New", recv |-> 0, level |-> 0, name |-> <<>>, kvList |-> <<>>,
           msg |-> <<>>, err |-> Nil, wrote |-> 0]

----------------------------------------------------------------------------
(* The program: loggers are derived from New() and logged to *)

Init ==
    /\ heap = <<>>
    /\ loggers = <<New>>
    /\ derivation = <<[names |-> <<>>, level |-> 0, parent |-> 0]>>
    /\ threshold \in Thresholds
    /\ sink = [n |-> 0, sev |-> "none", text |-> <<>>]
    /\ last = NoCall
    /\ fn = "none"
    /\ arg = <<>>
    /\ ret = <<>>

Derive(r, d, call) ==
    /\ Len(loggers) < MaxLoggers
    /\ heap' = r.heap
    /\ loggers' = Append(loggers, r.logger)
    /\ derivation' = Append(derivation, d)
    /\ last' = call
    /\ UNCHANGED <<threshold, sink, fn, arg, ret>>

CallV(i, level) ==
    Derive(V(heap, loggers[i], level),
           [derivation[i] EXCEPT !.level = level, !.parent = i],
           [NoCall EXCEPT !.op = "V", !.recv = i, !.level = level])

CallWithName(i, name) ==
    Derive(WithName(heap, loggers[i], name),
           [derivation[i] EXCEPT !.names = Append(@, name), !.parent = i],
           [NoCall EXCEPT !.op = "WithName", !.recv = i, !.name = name])

CallWithValues(i, kvList) ==
    \E newcap \in GrowCaps(loggers[i].values.len, loggers[i].values.len + Len(kvList)) :
        Derive(WithValues(heap, loggers[i], kvList, newcap),
               [derivation[i] EXCEPT !.parent = i],
               [NoCall EXCEPT !.op = "WithValues", !.recv = i, !.kvList = kvList])

Write(w, call) ==
    /\ sink.n + Len(w) <= MaxWrites
    /\ sink' = IF w = <<>> THEN sink
               ELSE [n |-> sink.n + Len(w), sev |-> w[Len(w)].sev, text |-> w[Len(w)].text]
    /\ last' = [call EXCEPT !.wrote = Len(w)]
    /\ UNCHANGED <<heap, loggers, derivation, threshold, fn, arg, ret>>

CallInfo(i, msg, kvList) ==
    Write(InfoWrites(loggers[i], msg, kvList),
          [NoCall EXCEPT !.op = "Info", !.recv = i, !.msg = msg, !.kvList = kvList])

CallError(i, err, msg, kvList) ==
    Write(ErrorWrites(loggers[i], err, msg, kvList),
          [NoCall EXCEPT !.op = "Error", !.recv = i, !.msg = msg, !.kvList = kvList,
                         !.err = err])

\* a program that derives a chain of loggers and logs to the newest one
Next ==
    \/ \E level \in Levels : CallV(Len(loggers), level)
    \/ \E name \in Names : CallWithName(Len(loggers), name)
    \/ \E kvList \in WithValuesArgs : CallWithValues(Len(loggers), kvList)
    \/ \E msg \in Msgs, kvList \in CallArgs : CallInfo(Len(loggers), msg, kvList)
    \/ \E err \in Errs, msg \in Msgs, kvList \in CallArgs :
           CallError(Len(loggers), err, msg, kvList)

Spec == Init /\ [][Next]_vars

\* a program that derives loggers from any logger it holds and logs to any of them
NextTree ==
    \E i \in 1..Len(loggers) :
        \/ \E level \in Levels : CallV(i, level)
        \/ \E name \in Names : CallWithName(i, name)
        \/ \E kvList \in WithValuesArgs \cup {<<>>} : CallWithValues(i, kvList)
        \/ CallInfo(i, <<>>, <<A>>)
        \/ CallError(i, Nil, <<>>, <<A>>)

SpecTree == Init /\ [][NextTree]_vars

----------------------------------------------------------------------------
(* The pure functions applied to arbitrary arguments *)

TrimKeys == {A, B}
TrimVals == {IntValue(1), A}

\* the layers of length n: keys at the key positions, values after them
Layers(n) ==
    {s \in [1..n -> TrimKeys \cup TrimVals] :
        \A j \in 1..n : IF j % 2 = 1 THEN s[j] \in TrimKeys ELSE s[j] \in TrimVals}

AllLayers == UNION {Layers(n) : n \in 0..MaxLayerLen}

LayerLists == UNION {[1..m -> AllLayers] : m \in 0..MaxLayers}

K == StrValue(<<"k">>)
Val == StrValue(<<"v">>)

FmtEntries ==
    {K, Val, StrValue(<<"\"">>), IntValue(12), Nil, ErrorValue(<<"e">>), Stringer(<<"s">>)}

FmtLists == UNION {[1..n -> FmtEntries] : n \in 0..MaxFmtLen}

Idle ==
    /\ heap = <<>>
    /\ loggers = <<New>>
    /\ derivation = <<[names |-> <<>>, level |-> 0, parent |-> 0]>>
    /\ threshold = 0
    /\ sink = [n |-> 0, sev |-> "none", text |-> <<>>]
    /\ last = NoCall

InitTrim == Idle /\ fn = "trimDuplicates" /\ arg \in LayerLists /\ ret = <<>>

ApplyTrimDuplicates ==
    /\ fn = "trimDuplicates"
    /\ ret = <<>>
    /\ ret' = <<trimDuplicates(arg)>>
    /\ UNCHANGED <<heap, loggers, derivation, threshold, sink, last, fn, arg>>

SpecTrim == InitTrim /\ [][ApplyTrimDuplicates]_vars

InitFormat == Idle /\ fn = "kvListFormat" /\ arg \in FmtLists /\ ret = <<>>

ApplyKvListFormat ==
    /\ fn = "kvListFormat"
    /\ ret = <<>>
    /\ ret' = <<kvListFormat(arg)>>
    /\ UNCHANGED <<heap, loggers, derivation, threshold, sink, last, fn, arg>>

SpecFormat == InitFormat /\ [][ApplyKvListFormat]_vars

----------------------------------------------------------------------------
(* Vocabulary of the properties *)

IsSuffix(p, s) == Len(p) <= Len(s) /\ SubSeq(s, Len(s) - Len(p) + 1, Len(s)) = p

Contains(s, p) == \E o \in 0..(Len(s) - Len(p)) : SubSeq(s, o + 1, o + Len(p)) = p

KeyIdx(layer) == {j \in 1..Len(layer) : j % 2 = 1}

KeysOf(layer) == {layer[j] : j \in KeyIdx(layer)}

LaterKeys(lists, i) == UNION {KeysOf(lists[j]) : j \in (i + 1)..Len(lists)}

\* the last key position of layer at which k stands
LastIdx(layer, k) ==
    CHOOSE p \in KeyIdx(layer) :
        layer[p] = k /\ \A q \in KeyIdx(layer) : layer[q] = k => q <= p

TrimDone == fn = "trimDuplicates" /\ ret # <<>>
FormatDone == fn = "kvListFormat" /\ ret # <<>>

NilText == <<"<", "n", "i", "l", ">">>

----------------------------------------------------------------------------
(* C1 *)

\* C1 as stated: if a key occurs at a key position of input layer j, no output
\* layer before j contains the key, and output layer j contains it paired with
\* a value it had in input layer j.
C1_AsStated ==
    TrimDone =>
        \A j \in 1..Len(arg) : \A p \in KeyIdx(arg[j]) :
            LET k == arg[j][p] IN
            /\ \A i \in 1..(j - 1) : k \notin KeysOf(ret[1][i])
            /\ \E q \in KeyIdx(ret[1][j]) :
                 /\ ret[1][j][q] = k
                 /\ \E p2 \in KeyIdx(arg[j]) :
                      /\ arg[j][p2] = k
                      /\ p2 + 1 <= Len(arg[j])
                      /\ ret[1][j][q + 1] = arg[j][p2 + 1]

\* C1, amended: if a key occurs at a key position of input layer j, no output
\* layer before j contains the key; and if it occurs in no later layer, output
\* layer j contains it at exactly one key position, paired with the value that
\* follows its last occurrence in input layer j, or with nil when that
\* occurrence is the unpaired final element.
C1_LaterLayerWins ==
    TrimDone =>
        \A j \in 1..Len(arg) : \A p \in KeyIdx(arg[j]) :
            LET k == arg[j][p]
                lp == LastIdx(arg[j], k) IN
            /\ \A i \in 1..(j - 1) : k \notin KeysOf(ret[1][i])
            /\ k \notin LaterKeys(arg, j) =>
                 /\ Cardinality({q \in KeyIdx(ret[1][j]) : ret[1][j][q] = k}) = 1
                 /\ \A q \in KeyIdx(ret[1][j]) :
                      ret[1][j][q] = k =>
                          ret[1][j][q + 1] =
                              IF lp + 1 <= Len(arg[j]) THEN arg[j][lp + 1] ELSE Nil

\* the documented example, [[a,1,b,v],[b,1]]: the later b wins, a survives
C1_Witness ==
    /\ TrimDone
    /\ arg = <<<<A, IntValue(1), B, A>>, <<B, IntValue(1)>>>>
    /\ ret[1] = <<<<A, IntValue(1)>>, <<B, IntValue(1)>>>>

----------------------------------------------------------------------------
(* C2 *)

\* the layer without the pairs whose key is in `drop`, nothing else changed
RECURSIVE WithoutKeys(_, _)
WithoutKeys(layer, drop) ==
    IF layer = <<>> THEN <<>>
    ELSE IF Len(layer) = 1
    THEN (IF layer[1] \in drop THEN <<>> ELSE layer)
    ELSE (IF layer[1] \in drop THEN <<>> ELSE <<layer[1], layer[2]>>)
         \o WithoutKeys(SubSeq(layer, 3, Len(layer)), drop)

\* C2 as stated: each output layer is exactly the input layer with the pairs
\* whose key also occurs in a strictly later layer removed; every other pair is
\* kept, also when a key is repeated inside one layer.
C2_AsStated ==
    TrimDone =>
        /\ Len(ret[1]) = Len(arg)
        /\ \A i \in 1..Len(arg) : ret[1][i] = WithoutKeys(arg[i], LaterKeys(arg, i))

\* the pairs of the layer, from position p on, that are the last of their key in
\* the layer and whose key is not in `drop`; an unpaired final key is paired
\* with nil
RECURSIVE LastOfEachKey(_, _, _)
LastOfEachKey(layer, p, drop) ==
    IF p > Len(layer) THEN <<>>
    ELSE (IF layer[p] \in drop \/ \E q \in KeyIdx(layer) : q > p /\ layer[q] = layer[p]
          THEN <<>>
          ELSE <<layer[p], IF p + 1 <= Len(layer) THEN layer[p + 1] ELSE Nil>>)
         \o LastOfEachKey(layer, p + 2, drop)

\* C2, amended: each output layer is the input layer, in its original order,
\* without the pairs whose key also occurs in a strictly later layer and
\* without the pairs whose key occurs again later in the same layer; an
\* unpaired final key is kept as the pair (key, nil).
C2_OnlyDuplicatesRemoved ==
    TrimDone =>
        /\ Len(ret[1]) = Len(arg)
        /\ \A i \in 1..Len(arg) :
               ret[1][i] = LastOfEachKey(arg[i], 1, LaterKeys(arg, i))

\* a key repeated inside one layer, and an unpaired key in the next
C2_Witness ==
    /\ TrimDone
    /\ arg = <<<<A, IntValue(1), A, A>>, <<B>>>>
    /\ ret[1] = <<<<A, A>>, <<B, Nil>>>>

----------------------------------------------------------------------------
(* C10 *)

OutKeyPositions(k) ==
    {pos \in UNION {{<<i, q>> : q \in KeyIdx(ret[1][i])} : i \in 1..Len(ret[1])} :
        ret[1][pos[1]][pos[2]] = k}

\* C10: trimDuplicates returns as many layers as it was given, every output
\* layer has even length, every key of the input stands at exactly one key
\* position of the output, and every key of the output is a key of the input.
C10_EachKeyOnce ==
    TrimDone =>
        /\ Len(ret[1]) = Len(arg)
        /\ \A i \in 1..Len(ret[1]) : Len(ret[1][i]) % 2 = 0
        /\ \A k \in LaterKeys(arg, 0) : Cardinality(OutKeyPositions(k)) = 1
        /\ \A i \in 1..Len(ret[1]) : KeysOf(ret[1][i]) \subseteq LaterKeys(arg, 0)

\* an odd layer and a key that is repeated in a layer and across layers
C10_Witness ==
    /\ TrimDone
    /\ Len(arg) = 2
    /\ Len(arg[1]) = 3
    /\ arg[1][1] = arg[1][3]
    /\ arg[1][1] \in KeysOf(arg[2])
    /\ Len(arg[2]) % 2 = 1

----------------------------------------------------------------------------
(* C3 *)

PlainString(x) == x.kind = "string" /\ \A j \in 1..Len(x.s) : x.s[j] \notin {"\"", "\\"}

\* C3 as stated: the final unpaired key k of an odd-length list renders as
\* k=(MISSING), the sentinel unquoted, and a pair with string value v as k="v".
C3_AsStated ==
    FormatDone =>
        /\ Len(arg) % 2 = 1 =>
               IsSuffix(FmtS(arg[Len(arg)]) \o <<"=">> \o missingValue, ret[1])
        /\ \A p \in KeyIdx(arg) :
               (p + 1 <= Len(arg) /\ PlainString(arg[p + 1])) =>
                   Contains(ret[1], FmtS(arg[p]) \o <<"=", "\"">> \o arg[p + 1].s \o <<"\"">>)

\* C3, amended: the final unpaired key k of an odd-length list renders as
\* k="(MISSING)", the sentinel quoted like every string value, and a pair with
\* string value v as k="v"; ["k"] gives k="(MISSING)" and ["k","v"] gives k="v".
C3_MissingIsQuoted ==
    FormatDone =>
        /\ Len(arg) % 2 = 1 =>
               IsSuffix(FmtS(arg[Len(arg)]) \o <<"=", "\"">> \o missingValue \o <<"\"">>,
                        ret[1])
        /\ \A p \in KeyIdx(arg) :
               (p + 1 <= Len(arg) /\ PlainString(arg[p + 1])) =>
                   Contains(ret[1], FmtS(arg[p]) \o <<"=", "\"">> \o arg[p + 1].s \o <<"\"">>)
        /\ arg = <<K>> =>
               ret[1] = <<"k", "=", "\"", "(", "M", "I", "S", "S", "I", "N", "G", ")", "\"">>
        /\ arg = <<K, Val>> => ret[1] = <<"k", "=", "\"", "v", "\"">>

C3_Witness ==
    /\ FormatDone
    /\ arg = <<K, Val, K>>
    /\ Len(ret[1]) = 19

----------------------------------------------------------------------------
(* Vocabulary of the properties of the loggers *)

Svc == <<"s", "v", "c">>
Db == <<"d", "b">>
Started == <<"s", "t", "a", "r", "t", "e", "d">>

\* what a caller can see of logger i
View(h, ls, i) ==
    [level |-> ls[i].level, prefix |-> ls[i].prefix, values |-> Elems(h, ls[i].values)]

Receiver == loggers[last.recv]
ReceiverValues == Elems(heap, Receiver.values)

Logged == last.op \in {"Info", "Error"} /\ last.wrote = 1

----------------------------------------------------------------------------
(* C4 *)

NoAlias ==
    \A i, j \in 1..Len(loggers) :
        (i # j /\ loggers[i].values.arr # 0) => loggers[i].values.arr # loggers[j].values.arr

Frame == \A i \in 1..Len(loggers) : View(heap', loggers', i) = View(heap, loggers, i)

\* C4: no two loggers share a backing array, and no call of V, WithName,
\* WithValues, Info or Error changes the level, prefix or values of a logger
\* that existed before it.
C4_Immutable == [](NoAlias) /\ [][Frame]_vars

\* child = parent.WithValues(kvs) on a parent that has values of its own
C4_Witness ==
    /\ last.op = "WithValues"
    /\ last.kvList # <<>>
    /\ last.recv > 1
    /\ Receiver.values.len > 0
    /\ derivation[Len(loggers)].parent = last.recv
    /\ loggers[Len(loggers)].values.len > Receiver.values.len

----------------------------------------------------------------------------
(* C5 *)

\* C5: every call of Error writes exactly one line, to klog's error output,
\* whatever the logger's level and klog's verbosity.
C5_ErrorAlwaysWrites ==
    [][last'.op = "Error" =>
          /\ sink'.n = sink.n + 1
          /\ sink'.sev = "error"
          /\ last'.wrote = 1]_vars

\* Error has written for a logger that is not enabled
C5_Witness ==
    /\ last.op = "Error"
    /\ last.wrote = 1
    /\ sink.sev = "error"
    /\ Receiver.level > threshold

----------------------------------------------------------------------------
(* C6 *)

\* C6: Info writes exactly one line if klog's verbosity is at least the level
\* of the most recent V in the logger's chain (0 without V), and otherwise
\* writes nothing and changes nothing.
C6_InfoGated ==
    [][last'.op = "Info" =>
          IF threshold >= derivation[last'.recv].level
          THEN /\ sink'.n = sink.n + 1
               /\ sink'.sev = "info"
               /\ last'.wrote = 1
          ELSE /\ last'.wrote = 0
               /\ UNCHANGED <<heap, loggers, threshold, sink>>]_vars

\* Info suppressed on a logger whose level was set by V before a WithName
C6_Witness ==
    /\ last.op = "Info"
    /\ last.wrote = 0
    /\ derivation[last.recv].level > threshold
    /\ Len(derivation[last.recv].names) > 0
    /\ sink.n > 0

----------------------------------------------------------------------------
(* C7 *)

NonEmpty(pieces) == SelectSeq(pieces, LAMBDA piece : piece # <<>>)

RECURSIVE JoinWith(_, _)
JoinWith(pieces, sep) ==
    IF pieces = <<>> THEN <<>>
    ELSE IF Len(pieces) = 1 THEN pieces[1]
    ELSE pieces[1] \o sep \o JoinWith(Tail(pieces), sep)

InfoPieces ==
    LET trimmed == trimDuplicates(<<ReceiverValues, last.kvList>>) IN
    <<IF Receiver.prefix = <<>> THEN <<>> ELSE Receiver.prefix \o <<":">>,
      last.msg, kvListFormat(trimmed[1]), kvListFormat(trimmed[2])>>

\* C7: the text Info writes is the non-empty ones of prefix+":", msg, fixedStr
\* and userStr, in that order, joined by single spaces, with no space before or
\* after; New().WithValues("a",1).WithName("svc").Info("started","b",2) writes
\* svc: started a=1 b=2.
C7_InfoText ==
    (last.op = "Info" /\ last.wrote = 1) =>
        /\ sink.text = JoinWith(NonEmpty(InfoPieces), <<" ">>)
        /\ sink.text # <<>> => sink.text[1] # " " /\ sink.text[Len(sink.text)] # " "
        /\ (/\ Receiver.prefix = Svc
            /\ ReceiverValues = <<A, IntValue(1)>>
            /\ last.msg = Started
            /\ last.kvList = <<B, IntValue(2)>>) =>
               sink.text = <<"s", "v", "c", ":", " ", "s", "t", "a", "r", "t", "e", "d", " ",
                             "a", "=", "1", " ", "b", "=", "2">>

C7_Witness ==
    /\ last.op = "Info"
    /\ last.wrote = 1
    /\ Receiver.prefix = Svc
    /\ ReceiverValues = <<A, IntValue(1)>>
    /\ last.msg = Started
    /\ last.kvList = <<B, IntValue(2)>>

----------------------------------------------------------------------------
(* C8 *)

----------------------------------------------------------------------------
(* C9 *)

OddArgs == Len(last.kvList) % 2 = 1
OddValues == Len(ReceiverValues) % 2 = 1
LastOf(s) == s[Len(s)]

\* C9 as stated: when Info (enabled) or Error is called with an odd number of
\* key/value arguments, or on a logger whose values have odd length, the line
\* written shows the (MISSING) placeholder as the value of the unpaired key.
C9_AsStated ==
    (Logged /\ (OddArgs \/ OddValues)) => Contains(sink.text, missingValue)

\* C9, amended: such a call still writes its line, and the line shows the
\* unpaired key with the value <nil>: the unpaired key of the arguments ends
\* the line as k=<nil>, the unpaired key of the logger's values appears as
\* k=<nil> unless the arguments give the same key, and (MISSING) appears nowhere.
C9_OddRendersNil ==
    (Logged /\ (OddArgs \/ OddValues)) =>
        /\ OddArgs => IsSuffix(FmtS(LastOf(last.kvList)) \o <<"=">> \o NilText, sink.text)
        /\ (OddValues /\ LastOf(ReceiverValues) \notin KeysOf(last.kvList)) =>
               Contains(sink.text, FmtS(LastOf(ReceiverValues)) \o <<"=">> \o NilText)
        /\ ~Contains(sink.text, missingValue)

C9_Witness ==
    /\ Logged
    /\ last.op = "Info"
    /\ OddArgs
    /\ OddValues
    /\ LastOf(ReceiverValues) \notin KeysOf(last.kvList)

====
